---- MODULE Spec2Model ----
(***************************************************************************)
(* Geofence analysis engine of road-services (src/geofence_core.py) and    *)
(* its batch entry point (src/geofence_calculator.py).                     *)
(*                                                                         *)
(* Coordinates live on a small integer grid: a GPS point is a dict with    *)
(* the keys lat and lon, a polygon is an axis-parallel rectangle, and the  *)
(* great-circle distance is measured in whole grid units.                   *)
(***************************************************************************)
EXTENDS Integers, Sequences, FiniteSets, TLC

VARIABLES
    geofences,        \* GeofenceService.geofences: the loaded registry, in insertion order
    vehicle_states,   \* EntryExitCounter.vehicle_states of the long-lived analyzer
    calls,            \* the calls made so far, each with its input and what it returned
    running           \* the calls in progress on the tracker, one slot for each thread

vars == <<geofences, vehicle_states, calls, running>>

(***************************************************************************)
(* Bounds of the model.                                                    *)
(***************************************************************************)
\* the size of one session: its calls plus the points handed to them
MaxWork == 5

(***************************************************************************)
(* Python values.                                                          *)
(***************************************************************************)
\* None where a zone id (a string) is expected
None == "None"

\* None where a number or a dict is expected: an optional value is a sequence
\* of at most one element
Nothing == << >>
Some(x) == <<x>>

EmptyDict == [k \in {} |-> None]

\* dict.get(key, default)
Get(d, k, default) == IF k \in DOMAIN d THEN d[k] ELSE default

\* d[key] = value
Put(d, k, v) == [x \in (DOMAIN d) \cup {k} |-> IF x = k THEN v ELSE d[x]]

\* floor of the square root
ISqrt(n) == CHOOSE r \in 0..n : r * r <= n /\ n < (r + 1) * (r + 1)

(***************************************************************************)
(* Configuration: the rate table and the zone definition file.             *)
(***************************************************************************)
GEOCERCA_KM_VALUES ==
    [z \in {"aduana_420", "colombia", "nuevo_laredo"} |->
        CASE z = "aduana_420" -> Some(37)
          [] z = "colombia" -> Some(60)
          [] OTHER -> Nothing]

\* a polygon ring: the rectangle with the corners (xmin, ymin) and (xmax, ymax)
Ring(xmin, xmax, ymin, ymax) == [xmin |-> xmin, xmax |-> xmax, ymin |-> ymin, ymax |-> ymax]

Feature(id, ring) ==
    [properties |-> [id |-> id, name |-> id], geometry |-> [coordinates |-> <<ring>>]]

\* the content of geofences.json as deployed: three disjoint zones
StandardFile ==
    [exists |-> TRUE,
     features |-> << Feature("aduana_420", Ring(0, 2, 0, 2)),
                     Feature("colombia", Ring(2, 4, 0, 2)),
                     Feature("nuevo_laredo", Ring(5, 8, 0, 2)) >>]

\* the same file with one more zone, for which the rate table has no entry
UnratedFile ==
    [exists |-> TRUE,
     features |-> Append(StandardFile.features, Feature("patio", Ring(8, 11, 0, 2)))]

\* a file whose colombia polygon reaches into nuevo_laredo: the point (1, 6)
\* lies inside both, and colombia is listed first
OverlapFile ==
    [exists |-> TRUE,
     features |-> << Feature("aduana_420", Ring(0, 2, 0, 2)),
                     Feature("colombia", Ring(2, 7, 0, 2)),
                     Feature("nuevo_laredo", Ring(5, 8, 0, 2)) >>]

\* the same polygons with nuevo_laredo listed before colombia
OverlapReversedFile ==
    [exists |-> TRUE,
     features |-> << Feature("aduana_420", Ring(0, 2, 0, 2)),
                     Feature("nuevo_laredo", Ring(5, 8, 0, 2)),
                     Feature("colombia", Ring(2, 7, 0, 2)) >>]

\* a feature collection without features
EmptyFile == [exists |-> TRUE, features |-> << >>]

\* no file at the path: open() raises
MissingFile == [exists |-> FALSE, features |-> << >>]

\* a file whose second feature has no properties.id: the loop raises KeyError
\* after the first feature is parsed
MalformedFile ==
    [exists |-> TRUE,
     features |-> << Feature("aduana_420", Ring(0, 2, 0, 2)),
                     [properties |-> [name |-> "colombia"],
                      geometry |-> [coordinates |-> <<Ring(2, 4, 0, 2)>>]] >>]

GeofenceFiles == {StandardFile, UnratedFile}

WellFormedFeature(f) ==
    /\ "properties" \in DOMAIN f
    /\ "geometry" \in DOMAIN f
    /\ "id" \in DOMAIN f.properties
    /\ "name" \in DOMAIN f.properties
    /\ "coordinates" \in DOMAIN f.geometry
    /\ Len(f.geometry.coordinates) >= 1

\* variant: the features parsed before the failure are kept
RECURSIVE ParsedPrefix(_, _)
ParsedPrefix(file, i) ==
    IF i > Len(file.features) \/ ~WellFormedFeature(file.features[i]) THEN << >>
    ELSE <<[geofence_id |-> file.features[i].properties.id,
            name |-> file.features[i].properties.name,
            polygon |-> file.features[i].geometry.coordinates[1]]>>
         \o ParsedPrefix(file, i + 1)

_load_geofencesPartial(file) == IF file.exists THEN ParsedPrefix(file, 1) ELSE << >>

\* GeofenceService._load_geofences: every feature parsed, or {} on any exception
_load_geofences(file) ==
    IF file.exists /\ \A i \in 1..Len(file.features) : WellFormedFeature(file.features[i])
    THEN [i \in 1..Len(file.features) |->
            [geofence_id |-> file.features[i].properties.id,
             name |-> file.features[i].properties.name,
             polygon |-> file.features[i].geometry.coordinates[1]]]
    ELSE << >>

\* whether reading and parsing the file raises inside the try block
LoadRaises(file) ==
    ~file.exists \/ \E i \in 1..Len(file.features) : ~WellFormedFeature(file.features[i])

\* the files a registry can be built from
RegistryFiles ==
    {StandardFile, UnratedFile, OverlapFile, OverlapReversedFile,
     EmptyFile, MissingFile, MalformedFile}

\* GeofenceService.__init__: the registry is whatever _load_geofences returns;
\* _load_geofences handles every exception itself, so none reaches the caller
GeofenceService(geofence_file) ==
    [geofences |-> _load_geofences(geofence_file), raised |-> FALSE]

\* the keys of the registry
GeofenceIds(gf) == {gf[i].geofence_id : i \in 1..Len(gf)}

(***************************************************************************)
(* GPS points.                                                             *)
(***************************************************************************)
Pt(lat, lon) == [lat |-> lat, lon |-> lon]

\* the sample coordinates: inside aduana_420, inside colombia, on colombia's
\* eastern edge (outside every zone), two places inside nuevo_laredo, and two
\* inside patio
GoodPoints == {Pt(1, 1), Pt(1, 3), Pt(1, 4), Pt(1, 6), Pt(1, 7), Pt(1, 9), Pt(1, 10)}

\* a record without the key lat
BadPoint == [lon |-> 3]

WellFormed(point) == "lat" \in DOMAIN point /\ "lon" \in DOMAIN point

Vehicles == {"T1", "T2"}

(***************************************************************************)
(* GeofenceService.find_geofence and the distance function.                *)
(***************************************************************************)
\* variant: the boundary belongs to the polygon
ContainsClosed(polygon, lat, lon) ==
    /\ polygon.xmin <= lon /\ lon <= polygon.xmax
    /\ polygon.ymin <= lat /\ lat <= polygon.ymax

\* shapely's Polygon.contains: the interior, without the boundary
Contains(polygon, lat, lon) ==
    /\ polygon.xmin < lon /\ lon < polygon.xmax
    /\ polygon.ymin < lat /\ lat < polygon.ymax

RECURSIVE FindFrom(_, _, _, _)
FindFrom(gf, i, lat, lon) ==
    IF i > Len(gf) THEN [inside |-> FALSE]
    ELSE IF Contains(gf[i].polygon, lat, lon)
         THEN [geofence_id |-> gf[i].geofence_id,
               geofence_name |-> gf[i].name,
               inside |-> TRUE]
         ELSE FindFrom(gf, i + 1, lat, lon)

\* variant: the last containing zone wins
RECURSIVE FindFromLast(_, _, _, _)
FindFromLast(gf, i, lat, lon) ==
    IF i > Len(gf) THEN [inside |-> FALSE]
    ELSE LET rest == FindFromLast(gf, i + 1, lat, lon) IN
         IF rest.inside THEN rest
         ELSE IF Contains(gf[i].polygon, lat, lon)
              THEN [geofence_id |-> gf[i].geofence_id,
                    geofence_name |-> gf[i].name,
                    inside |-> TRUE]
              ELSE rest

find_geofenceLastMatch(gf, lat, lon) == FindFromLast(gf, 1, lat, lon)

find_geofence(gf, lat, lon) == FindFrom(gf, 1, lat, lon)

\* distance between two points, in whole grid units
calculate_distance(lat1, lon1, lat2, lon2) ==
    ISqrt((lat2 - lat1) * (lat2 - lat1) + (lon2 - lon1) * (lon2 - lon1))

(***************************************************************************)
(* EntryExitCounter.count_entry_exit_cycles.                               *)
(***************************************************************************)
\* variant: the cycle is counted when a zone is entered
CycleStepOnEntry(current_state, cycles_count, current_geofence) ==
    [current_state |-> [current_state EXCEPT !.current_geofence = current_geofence],
     cycles_count |-> IF current_geofence # None
                         /\ current_state.current_geofence # current_geofence
                      THEN [cycles_count EXCEPT ![current_geofence] = @ + 1]
                      ELSE cycles_count]

\* variant: only a departure to outside every zone counts
CycleStepExitToOutside(current_state, cycles_count, current_geofence) ==
    [current_state |-> [current_state EXCEPT !.current_geofence = current_geofence],
     cycles_count |-> IF current_state.current_geofence # None /\ current_geofence = None
                      THEN [cycles_count EXCEPT ![current_state.current_geofence] = @ + 1]
                      ELSE cycles_count]

\* variant: every sample that follows a sample inside a zone counts
CycleStepPerSample(current_state, cycles_count, current_geofence) ==
    [current_state |-> [current_state EXCEPT !.current_geofence = current_geofence],
     cycles_count |-> IF current_state.current_geofence # None
                      THEN [cycles_count EXCEPT ![current_state.current_geofence] = @ + 1]
                      ELSE cycles_count]

\* the body of the loop once the point is classified: a departure from the
\* tracked zone adds one cycle to it, then the tracked zone is overwritten
CycleStep(current_state, cycles_count, current_geofence) ==
    LET tracked == current_state.current_geofence IN
    [current_state |-> [current_state EXCEPT !.current_geofence = current_geofence],
     cycles_count |-> IF tracked # None /\ tracked # current_geofence
                      THEN [cycles_count EXCEPT ![tracked] = @ + 1]
                      ELSE cycles_count]

\* the loop over the points from index i on; acc.trail keeps, for every point
\* processed, the tracked zone and the counts before and after it.  Reading
\* point['lat'] of a point without that key raises and ends the loop.
RECURSIVE CountLoop(_, _, _, _)
CountLoop(gf, gps_points, i, acc) ==
    IF i > Len(gps_points) THEN acc
    ELSE IF ~WellFormed(gps_points[i]) THEN [acc EXCEPT !.raised = TRUE]
    ELSE LET geofence_info == find_geofence(gf, gps_points[i].lat, gps_points[i].lon)
             current_geofence == Get(geofence_info, "geofence_id", None)
             step == CycleStep(acc.current_state, acc.cycles_count, current_geofence)
         IN CountLoop(gf, gps_points, i + 1,
                [raised |-> FALSE,
                 current_state |-> step.current_state,
                 cycles_count |-> step.cycles_count,
                 trail |-> Append(acc.trail,
                             [before |-> acc.current_state.current_geofence,
                              match |-> current_geofence,
                              after |-> step.current_state.current_geofence,
                              cycles_before |-> acc.cycles_count,
                              cycles_after |-> step.cycles_count])])

\* variant: the final state is not stored
CountedNoPersist(states, vehicle_id, run) ==
    [raised |-> run.raised,
     cycles_count |-> run.cycles_count,
     trail |-> run.trail,
     vehicle_states |-> states]

\* what the method leaves behind once the loop has run.  current_state is the
\* stored dict itself when the vehicle has an entry, so the loop's writes reach
\* vehicle_states at once, also when the loop raises; without an entry they
\* reach it only with the assignment after the loop
Counted(states, vehicle_id, run) ==
    [raised |-> run.raised,
     cycles_count |-> run.cycles_count,
     trail |-> run.trail,
     vehicle_states |-> IF run.raised /\ vehicle_id \notin DOMAIN states
                        THEN states
                        ELSE Put(states, vehicle_id, run.current_state)]

\* variant: every call starts from no tracked zone
count_entry_exit_cyclesFromNoZone(gf, states, vehicle_id, gps_points) ==
    Counted(states, vehicle_id,
        CountLoop(gf, gps_points, 1,
            [raised |-> FALSE,
             current_state |-> [current_geofence |-> None],
             cycles_count |-> [z \in GeofenceIds(gf) |-> 0],
             trail |-> << >>]))

\* the method: zeroed counts for every zone of the registry, the tracked
\* state of the vehicle or NoZone, the loop, the store
count_entry_exit_cycles(gf, states, vehicle_id, gps_points) ==
    Counted(states, vehicle_id,
        CountLoop(gf, gps_points, 1,
            [raised |-> FALSE,
             current_state |-> Get(states, vehicle_id, [current_geofence |-> None]),
             cycles_count |-> [z \in GeofenceIds(gf) |-> 0],
             trail |-> << >>]))

(***************************************************************************)
(* Real distance inside one zone.                                          *)
(***************************************************************************)
\* variant: the point lies in the polygon of the target zone, whichever zone
\* the lookup returns for it
IsInsideTargetPolygon(gf, point, target_geofence_id) ==
    \E k \in 1..Len(gf) :
        /\ gf[k].geofence_id = target_geofence_id
        /\ Contains(gf[k].polygon, point.lat, point.lon)

\* whether the point is classified into the target zone
IsInside(gf, point, target_geofence_id) ==
    LET geofence_info == find_geofence(gf, point.lat, point.lon) IN
    /\ Get(geofence_info, "inside", FALSE)
    /\ Get(geofence_info, "geofence_id", None) = target_geofence_id

\* variant: the segment into the zone is added as well
AddsSegmentOnEntry(prev_point, is_inside) ==
    prev_point # Nothing /\ is_inside

\* variant: every segment is added, wherever its points lie
AddsSegmentAlways(prev_point, is_inside) ==
    prev_point # Nothing

\* a segment is added when there is a previous point and both it and the
\* current point are inside the target zone
AddsSegment(prev_point, is_inside) ==
    prev_point # Nothing /\ is_inside /\ prev_point[1].is_inside

\* the loop from index i on; prev_point is None before the first point
RECURSIVE RealDistanceLoop(_, _, _, _, _, _)
RealDistanceLoop(gf, gps_points, target_geofence_id, i, prev_point, total_distance_km) ==
    IF i > Len(gps_points) THEN [raised |-> FALSE, value |-> total_distance_km]
    ELSE IF ~WellFormed(gps_points[i]) THEN [raised |-> TRUE, value |-> total_distance_km]
    ELSE LET lat == gps_points[i].lat
             lon == gps_points[i].lon
             is_inside == IsInside(gf, gps_points[i], target_geofence_id)
             segment == IF AddsSegment(prev_point, is_inside)
                        THEN calculate_distance(prev_point[1].lat, prev_point[1].lon, lat, lon)
                        ELSE 0
         IN RealDistanceLoop(gf, gps_points, target_geofence_id, i + 1,
                Some([lat |-> lat, lon |-> lon, is_inside |-> is_inside]),
                total_distance_km + segment)

calculate_real_distance_in_geofence(gf, gps_points, target_geofence_id) ==
    RealDistanceLoop(gf, gps_points, target_geofence_id, 1, Nothing, 0)

(***************************************************************************)
(* Real distance inside every zone at once: calculate_real_distances.      *)
(***************************************************************************)
\* variant: the zone is kept while the vehicle is outside every zone
ZoneAfterNoReset(geofence_info, current_geofence) ==
    IF geofence_info.inside THEN geofence_info.geofence_id ELSE current_geofence

\* current_geofence once the point is processed: its zone, None outside
ZoneAfter(geofence_info, current_geofence) ==
    IF geofence_info.inside THEN geofence_info.geofence_id ELSE None

\* the loop from index i on; a segment is added to the zone of the point when
\* the previous point was in the same zone
RECURSIVE RealDistancesLoop(_, _, _, _, _, _)
RealDistancesLoop(gf, gps_points, i, prev_point, current_geofence, distances) ==
    IF i > Len(gps_points) THEN [raised |-> FALSE, value |-> distances]
    ELSE IF ~WellFormed(gps_points[i]) THEN [raised |-> TRUE, value |-> distances]
    ELSE LET lat == gps_points[i].lat
             lon == gps_points[i].lon
             geofence_info == find_geofence(gf, lat, lon)
             adds == /\ geofence_info.inside
                     /\ prev_point # Nothing
                     /\ current_geofence = geofence_info.geofence_id
         IN RealDistancesLoop(gf, gps_points, i + 1, Some(gps_points[i]),
                ZoneAfter(geofence_info, current_geofence),
                IF adds
                THEN Put(distances, geofence_info.geofence_id,
                         Get(distances, geofence_info.geofence_id, 0)
                         + calculate_distance(prev_point[1].lat, prev_point[1].lon, lat, lon))
                ELSE distances)

calculate_real_distances(gf, gps_points) ==
    RealDistancesLoop(gf, gps_points, 1, Nothing, None, EmptyDict)

(***************************************************************************)
(* EntryExitCounter.calculate_kilometers.                                  *)
(***************************************************************************)
\* variant: a zone without a fixed rate is billed one kilometre per cycle
calculate_kilometersPerCycle(km_values, cycles_count, real_distances) ==
    [geofence_id \in DOMAIN cycles_count |->
        IF Get(km_values, geofence_id, Nothing) # Nothing
        THEN [cycles |-> cycles_count[geofence_id],
              total_km |-> cycles_count[geofence_id] * Get(km_values, geofence_id, Nothing)[1],
              type |-> "fixed_km"]
        ELSE [cycles |-> cycles_count[geofence_id],
              total_km |-> cycles_count[geofence_id],
              type |-> "real_km"]]

\* variant: a zone without cycles and without distance gets no metric
calculate_kilometersActiveOnly(km_values, cycles_count, real_distances) ==
    [geofence_id \in {z \in DOMAIN cycles_count :
                         cycles_count[z] > 0 \/ Get(real_distances, z, 0) > 0} |->
        LET km_value == Get(km_values, geofence_id, Nothing) IN
        IF km_value # Nothing
        THEN [cycles |-> cycles_count[geofence_id],
              total_km |-> cycles_count[geofence_id] * km_value[1],
              type |-> "fixed_km"]
        ELSE [cycles |-> cycles_count[geofence_id],
              total_km |-> Get(real_distances, geofence_id, 0),
              type |-> "real_km"]]

calculate_kilometers(km_values, cycles_count, real_distances) ==
    [geofence_id \in DOMAIN cycles_count |->
        LET km_value == Get(km_values, geofence_id, Nothing) IN
        IF km_value # Nothing
        THEN [cycles |-> cycles_count[geofence_id],
              total_km |-> cycles_count[geofence_id] * km_value[1],
              type |-> "fixed_km"]
        ELSE [cycles |-> cycles_count[geofence_id],
              total_km |-> Get(real_distances, geofence_id, 0),
              type |-> "real_km"]]

(***************************************************************************)
(* GeofenceAnalyzer.analyze_vehicle_data.                                  *)
(***************************************************************************)
\* the zones of the rate table that are billed by real distance
RealDistanceIds(km_values) == {z \in DOMAIN km_values : km_values[z] = Nothing}

\* sum(data['total_km'] for data in results.values()), over the keys in S
RECURSIVE SumTotalKm(_, _)
SumTotalKm(results, S) ==
    IF S = {} THEN 0
    ELSE LET z == CHOOSE x \in S : TRUE
         IN results[z].total_km + SumTotalKm(results, S \ {z})

\* the vehicle's total of one call, as the method reports it
TotalKm(results) == SumTotalKm(results, DOMAIN results)

\* the try block once the cycles are counted and the real distances measured:
\* what it computes, and whether something in it raised
TryResult(counted, measured) ==
    [raised |-> counted.raised \/ \E z \in DOMAIN measured : measured[z].raised,
     vehicle_states |-> counted.vehicle_states,
     cycles_count |-> counted.cycles_count,
     real_distances |-> [z \in DOMAIN measured |-> measured[z].value],
     results |-> calculate_kilometers(GEOCERCA_KM_VALUES, counted.cycles_count,
                                      [z \in DOMAIN measured |-> measured[z].value])]

\* the try block: the cycles, then the real distance of every zone whose rate
\* is None, then the composition
TryBlock(gf, states, vehicle_name, gps_points) ==
    TryResult(count_entry_exit_cycles(gf, states, vehicle_name, gps_points),
              [z \in RealDistanceIds(GEOCERCA_KM_VALUES) |->
                  calculate_real_distance_in_geofence(gf, gps_points, z)])

\* variant: no except clause
HandlesNothing(raised) == FALSE

\* the except clause: which of the exceptions raised in the try block it handles
Handles(raised) == raised

\* what the caller gets once the try block has run: its results, or {} when
\* the except clause handled an exception; propagated tells whether an
\* exception reaches the caller
Outcome(try) ==
    [result |-> IF try.raised THEN EmptyDict ELSE try.results,
     raised |-> try.raised,
     propagated |-> try.raised /\ ~Handles(try.raised),
     vehicle_states |-> try.vehicle_states,
     cycles_count |-> IF try.raised THEN EmptyDict ELSE try.cycles_count,
     real_distances |-> IF try.raised THEN EmptyDict ELSE try.real_distances,
     total_km |-> IF try.raised THEN Nothing ELSE Some(TotalKm(try.results))]

\* the outcome of a call that returns {} before any analysis
NoActivity(states) ==
    [result |-> EmptyDict, raised |-> FALSE, propagated |-> FALSE,
     vehicle_states |-> states, cycles_count |-> EmptyDict,
     real_distances |-> EmptyDict, total_km |-> Nothing]

\* variant: no early return for an empty list
analyze_vehicle_dataNoEarlyReturn(gf, states, vehicle_name, gps_points) ==
    Outcome(TryBlock(gf, states, vehicle_name, gps_points))

\* the whole method
analyze_vehicle_data(gf, states, vehicle_name, gps_points) ==
    IF Len(gps_points) = 0
    THEN NoActivity(states)
    ELSE Outcome(TryBlock(gf, states, vehicle_name, gps_points))

(***************************************************************************)
(* The batch entry point of src/geofence_calculator.py.                    *)
(***************************************************************************)
\* get_geotab_gps_data: the records fetched become well-formed points; any
\* failure of the fetch becomes the empty list
get_geotab_gps_data(fetch) == IF fetch.failed THEN << >> ELSE fetch.records

\* variant: the fetch's failure reaches the caller
analyze_weekly_geofence_dataRaising(gf, vehicle_name, fetch) ==
    IF fetch.failed
    THEN [NoActivity(EmptyDict) EXCEPT !.raised = TRUE, !.propagated = TRUE]
    ELSE IF Len(fetch.records) = 0
         THEN NoActivity(EmptyDict)
         ELSE analyze_vehicle_data(gf, EmptyDict, vehicle_name, fetch.records)

\* analyze_weekly_geofence_data: a GeofenceAnalyzer built for this call alone,
\* from the same zone file, analyses the fetched points
analyze_weekly_geofence_data(gf, vehicle_name, fetch) ==
    IF Len(get_geotab_gps_data(fetch)) = 0
    THEN NoActivity(EmptyDict)
    ELSE analyze_vehicle_data(gf, EmptyDict, vehicle_name, get_geotab_gps_data(fetch))

(***************************************************************************)
(* The state machine: one session of calls.                                *)
(***************************************************************************)
\* the size of a session: one for each call, plus the points it is given
RECURSIVE Work(_)
Work(cs) == IF cs = << >> THEN 0 ELSE 1 + Len(Head(cs).points) + Work(Tail(cs))

\* the sequences over S of length at most n
Seqs(S, n) == UNION {[1..k -> S] : k \in 0..n}

\* the traces of at most n points a caller can hand over: well-formed points,
\* or well-formed points up to a malformed one (nothing behind the first
\* malformed point is ever read)
Traces(n) ==
    IF n < 0 THEN {}
    ELSE Seqs(GoodPoints, n) \cup {Append(t, BadPoint) : t \in Seqs(GoodPoints, n - 1)}

\* what a fetch of one day's records can deliver
Fetches(n) ==
    IF n < 0 THEN {}
    ELSE {[failed |-> TRUE, records |-> << >>]} \cup
         {[failed |-> FALSE, records |-> t] : t \in Seqs(GoodPoints, n)}

\* the threads that call the tracker
Threads == {"A", "B"}

\* a thread that is not inside count_entry_exit_cycles
Idle == [pc |-> "idle"]

\* no call in progress.  heap holds the state dicts (each one its
\* current_geofence), refs the dict that vehicle_states holds for each vehicle
\* key, begun the number of calls begun so far
NoneRunning ==
    [heap |-> << >>, refs |-> EmptyDict, begun |-> 0, procs |-> [t \in Threads |-> Idle]]

Init ==
    /\ geofences \in {_load_geofences(file) : file \in GeofenceFiles}
    /\ vehicle_states = EmptyDict
    /\ calls = << >>
    /\ running = NoneRunning

\* analyzer.analyze_vehicle_data(vehicle_name, gps_points) on the long-lived analyzer
AnalyzeVehicleData ==
    \E vehicle_name \in Vehicles, gps_points \in Traces(MaxWork - Work(calls) - 1) :
        \E out \in {analyze_vehicle_data(geofences, vehicle_states, vehicle_name, gps_points)} :
        /\ vehicle_states' = out.vehicle_states
        /\ calls' = Append(calls,
               [op |-> "analyze_vehicle_data", vehicle |-> vehicle_name,
                points |-> gps_points, fetch_failed |-> FALSE,
                pre |-> vehicle_states, post |-> out.vehicle_states,
                cycles_count |-> out.cycles_count,
                real_distances |-> out.real_distances,
                total_km |-> out.total_km,
                result |-> out.result,
                raised |-> out.raised, propagated |-> out.propagated])
        /\ UNCHANGED <<geofences, running>>

\* analyze_weekly_geofence_data(vehicle_name, start_date, end_date): the fetch
\* fails or delivers the day's records
AnalyzeWeekly ==
    \E vehicle_name \in Vehicles, fetch \in Fetches(MaxWork - Work(calls) - 1) :
        \E out \in {analyze_weekly_geofence_data(geofences, vehicle_name, fetch)} :
        /\ calls' = Append(calls,
               [op |-> "analyze_weekly_geofence_data", vehicle |-> vehicle_name,
                points |-> fetch.records, fetch_failed |-> fetch.failed,
                pre |-> EmptyDict, post |-> out.vehicle_states,
                cycles_count |-> out.cycles_count,
                real_distances |-> out.real_distances,
                total_km |-> out.total_km,
                result |-> out.result,
                raised |-> out.raised, propagated |-> out.propagated])
        /\ UNCHANGED <<geofences, vehicle_states, running>>

\* the points looked up: the sample coordinates, and points on the edges and
\* on a vertex of the polygons
LookupPoints == GoodPoints \cup {Pt(1, 2), Pt(1, 5), Pt(1, 8), Pt(0, 1), Pt(2, 2)}

\* an analyzer under construction: nothing loaded, nothing called
InitRegistry ==
    /\ geofences = << >>
    /\ vehicle_states = EmptyDict
    /\ calls = << >>
    /\ running = NoneRunning

\* GeofenceAnalyzer(geofence_file): the registry is loaded from the file
Construct ==
    /\ calls = << >>
    /\ \E geofence_file \in RegistryFiles :
        \E out \in {GeofenceService(geofence_file)} :
        /\ geofences' = out.geofences
        /\ calls' = <<[op |-> "GeofenceAnalyzer", file |-> geofence_file,
                       points |-> << >>, raised |-> out.raised,
                       geofences |-> out.geofences]>>
    /\ UNCHANGED <<vehicle_states, running>>

\* geofence_service.find_geofence(lat, lon) on the constructed analyzer
FindGeofence ==
    /\ calls # << >>
    /\ Work(calls) + 2 <= MaxWork
    /\ \E point \in LookupPoints :
        calls' = Append(calls,
            [op |-> "find_geofence", points |-> <<point>>,
             result |-> find_geofence(geofences, point.lat, point.lon)])
    /\ UNCHANGED <<geofences, vehicle_states, running>>

\* analyze_vehicle_data on the constructed analyzer
AnalyzeOnRegistry == calls # << >> /\ AnalyzeVehicleData

\* a session of calls on one long-lived analyzer
Next == AnalyzeVehicleData

Spec == Init /\ [][Next]_vars

\* a batch run: one call of the entry point per vehicle and day
NextWeekly == AnalyzeWeekly

SpecWeekly == Init /\ [][NextWeekly]_vars

\* an analyzer built from any zone file, then looked up and used
NextRegistry == Construct \/ FindGeofence \/ AnalyzeOnRegistry

SpecRegistry == InitRegistry /\ [][NextRegistry]_vars

\* the traces of the end-to-end scenario: 5 points that start outside every
\* zone and hold one visit to aduana_420, then 10 points inside nuevo_laredo,
\* and then either nothing or one more point outside every zone
ScenarioAduana ==
    {t \in [1..5 -> {Pt(1, 4), Pt(1, 1)}] :
        /\ t[1] = Pt(1, 4)
        /\ \E a \in 2..5 : \E b \in a..5 :
              \A j \in 1..5 : (t[j] = Pt(1, 1)) <=> (a <= j /\ j <= b)}

ScenarioNuevoLaredo == [1..10 -> {Pt(1, 6), Pt(1, 7)}]

ScenarioTraces ==
    {a \o n \o rest : a \in ScenarioAduana, n \in ScenarioNuevoLaredo,
                      rest \in {<< >>, <<Pt(1, 4)>>}}

\* a fresh analyzer on the deployed zone file
InitScenario ==
    /\ geofences = GeofenceService(StandardFile).geofences
    /\ vehicle_states = EmptyDict
    /\ calls = << >>
    /\ running = NoneRunning

\* the one call of the scenario
AnalyzeScenario ==
    /\ calls = << >>
    /\ \E vehicle_name \in {"T1"}, gps_points \in ScenarioTraces :
        \E out \in {analyze_vehicle_data(geofences, vehicle_states, vehicle_name, gps_points)} :
        /\ vehicle_states' = out.vehicle_states
        /\ calls' = Append(calls,
               [op |-> "analyze_vehicle_data", vehicle |-> vehicle_name,
                points |-> gps_points, fetch_failed |-> FALSE,
                pre |-> vehicle_states, post |-> out.vehicle_states,
                cycles_count |-> out.cycles_count,
                real_distances |-> out.real_distances,
                total_km |-> out.total_km,
                result |-> out.result,
                raised |-> out.raised, propagated |-> out.propagated])
        /\ UNCHANGED <<geofences, running>>

NextScenario == AnalyzeScenario

SpecScenario == InitScenario /\ [][NextScenario]_vars

(***************************************************************************)
(* The functions of the core called one by one on one tracker.             *)
(***************************************************************************)
\* the places of the traces: inside aduana_420, outside every zone, two
\* places inside nuevo_laredo of which colombia's polygon may hold the first
FunctionPoints == {Pt(1, 1), Pt(1, 4), Pt(1, 6), Pt(1, 7)}

\* traces of at most n points, the last of which may be malformed
FunctionTraces(n) ==
    IF n < 0 THEN {}
    ELSE Seqs(FunctionPoints, n)
         \cup {Append(t, BadPoint) : t \in Seqs(FunctionPoints, n - 1)}

\* the zones a real distance is asked for: those of the registry and of the
\* rate table
TargetIds(gf) == GeofenceIds(gf) \cup DOMAIN GEOCERCA_KM_VALUES

InitFunctions ==
    /\ geofences \in {GeofenceService(file).geofences :
                         file \in {StandardFile, OverlapFile}}
    /\ vehicle_states = EmptyDict
    /\ calls = << >>
    /\ running = NoneRunning

\* entry_exit_counter.count_entry_exit_cycles(vehicle_id, gps_points); a call
\* that raises returns nothing
CountCycles ==
    \E vehicle_id \in Vehicles, gps_points \in FunctionTraces(MaxWork - Work(calls) - 1) :
        \E out \in {count_entry_exit_cycles(geofences, vehicle_states, vehicle_id, gps_points)} :
        /\ vehicle_states' = out.vehicle_states
        /\ calls' = Append(calls,
               [op |-> "count_entry_exit_cycles", vehicle |-> vehicle_id,
                points |-> gps_points,
                pre |-> vehicle_states, post |-> out.vehicle_states,
                raised |-> out.raised,
                cycles_count |-> IF out.raised THEN EmptyDict ELSE out.cycles_count])
        /\ UNCHANGED <<geofences, running>>

\* calculate_real_distance_in_geofence for every zone, and
\* calculate_real_distances, on the same points
MeasureRealDistances ==
    \E gps_points \in FunctionTraces(MaxWork - Work(calls) - 1) \ {<< >>} :
        /\ calls' = Append(calls,
               [op |-> "real_distances", points |-> gps_points,
                pre |-> vehicle_states, post |-> vehicle_states,
                in_geofence |-> [z \in TargetIds(geofences) |->
                    calculate_real_distance_in_geofence(geofences, gps_points, z)],
                all |-> calculate_real_distances(geofences, gps_points)])
        /\ UNCHANGED <<geofences, vehicle_states, running>>

\* entry_exit_counter.calculate_kilometers(cycles_count, real_distances)
CalculateKilometers ==
    /\ Work(calls) + 2 <= MaxWork
    /\ \E cycles_count \in {[z \in GeofenceIds(geofences) |-> n] : n \in {0, 1}},
          real_distances \in {EmptyDict, [z \in {"nuevo_laredo"} |-> 2]} :
        calls' = Append(calls,
            [op |-> "calculate_kilometers", points |-> << >>,
             pre |-> vehicle_states, post |-> vehicle_states,
             cycles_count |-> cycles_count, real_distances |-> real_distances,
             result |-> calculate_kilometers(GEOCERCA_KM_VALUES, cycles_count, real_distances)])
    /\ UNCHANGED <<geofences, vehicle_states, running>>

\* geofence_service.find_geofence(lat, lon)
LookUp ==
    /\ Work(calls) + 2 <= MaxWork
    /\ \E point \in FunctionPoints :
        calls' = Append(calls,
            [op |-> "find_geofence", points |-> <<point>>,
             pre |-> vehicle_states, post |-> vehicle_states,
             result |-> find_geofence(geofences, point.lat, point.lon)])
    /\ UNCHANGED <<geofences, vehicle_states, running>>

NextFunctions == CountCycles \/ MeasureRealDistances \/ CalculateKilometers \/ LookUp

SpecFunctions == InitFunctions /\ [][NextFunctions]_vars

(***************************************************************************)
(* Threads sharing one EntryExitCounter: count_entry_exit_cycles in steps. *)
(***************************************************************************)
\* the places the threads' traces go through: inside aduana_420, inside
\* colombia, outside every zone
ThreadPoints == {Pt(1, 1), Pt(1, 3), Pt(1, 4)}

\* vehicle_states as its dicts read: for every key the dict the map holds
StatesOf(heap, refs) == [v \in DOMAIN refs |-> [current_geofence |-> heap[refs[v]]]]

\* the size of the calls in progress of the threads in S
RECURSIVE RunningWork(_, _)
RunningWork(procs, S) ==
    IF S = {} THEN 0
    ELSE LET t == CHOOSE x \in S : TRUE
         IN (IF procs[t].pc = "idle" THEN 0 ELSE 1 + Len(procs[t].points))
            + RunningWork(procs, S \ {t})

\* one tracker on the deployed zone file, no call made
InitThreads ==
    /\ geofences = GeofenceService(StandardFile).geofences
    /\ vehicle_states = EmptyDict
    /\ calls = << >>
    /\ running = NoneRunning

\* variant: one default dict, made once, is handed to every vehicle without
\* an entry
FreshDictShared(heap) == 1

\* the dict {'current_geofence': None} that line 169 makes for a vehicle
\* without an entry: a new one at every call
FreshDict(heap) == Len(heap) + 1

\* lines 168-169: the zeroed counts, and current_state: the dict vehicle_states
\* holds for the vehicle, or a new dict that no map holds yet
Begin(t) ==
    /\ running.procs[t].pc = "idle"
    /\ \E vehicle_id \in Vehicles,
          gps_points \in Seqs(ThreadPoints,
                              MaxWork - Work(calls) - RunningWork(running.procs, Threads) - 1) :
        LET known == vehicle_id \in DOMAIN running.refs
            id == running.begun + 1
            others == {u \in Threads \ {t} : running.procs[u].pc # "idle"}
            same == {u \in others : running.procs[u].vehicle = vehicle_id}
        IN running' =
             [heap |-> IF known THEN running.heap ELSE Append(running.heap, None),
              refs |-> running.refs,
              begun |-> id,
              procs |-> [u \in Threads |->
                  IF u = t
                  THEN [pc |-> "check", id |-> id, vehicle |-> vehicle_id,
                        points |-> gps_points, i |-> 1,
                        current_state |-> IF known THEN running.refs[vehicle_id]
                                          ELSE FreshDict(running.heap),
                        cycles_count |-> [z \in GeofenceIds(geofences) |-> 0],
                        current_geofence |-> None,
                        pre |-> vehicle_states,
                        concurrent |-> {running.procs[w].id : w \in others},
                        overlaps |-> {running.procs[w].id : w \in same}]
                  ELSE IF u \in same
                       THEN [running.procs[u] EXCEPT !.concurrent = @ \cup {id},
                                                     !.overlaps = @ \cup {id}]
                       ELSE IF u \in others
                            THEN [running.procs[u] EXCEPT !.concurrent = @ \cup {id}]
                            ELSE running.procs[u]]]
    /\ UNCHANGED <<geofences, vehicle_states, calls>>

\* lines 172-182 for the next point: the point is classified, the tracked zone
\* is read from current_state and a departure adds its cycle
Check(t) ==
    /\ running.procs[t].pc = "check"
    /\ running.procs[t].i <= Len(running.procs[t].points)
    /\ LET p == running.procs[t]
           point == p.points[p.i]
           zone == Get(find_geofence(geofences, point.lat, point.lon), "geofence_id", None)
           step == CycleStep([current_geofence |-> running.heap[p.current_state]],
                             p.cycles_count, zone)
       IN running' = [running EXCEPT !.procs[t] =
              [p EXCEPT !.pc = "update",
                        !.cycles_count = step.cycles_count,
                        !.current_geofence = step.current_state.current_geofence]]
    /\ UNCHANGED <<geofences, vehicle_states, calls>>

\* line 185: the zone of the point is written into current_state
Update(t) ==
    /\ running.procs[t].pc = "update"
    /\ LET p == running.procs[t]
           heap == [running.heap EXCEPT ![p.current_state] = p.current_geofence]
       IN /\ running' = [running EXCEPT !.heap = heap,
                                        !.procs[t] = [p EXCEPT !.pc = "check", !.i = @ + 1]]
          /\ vehicle_states' = StatesOf(heap, running.refs)
    /\ UNCHANGED <<geofences, calls>>

\* variant: the counts are returned and current_state is not stored
FinishWithoutStore(t) ==
    /\ running.procs[t].pc = "check"
    /\ running.procs[t].i > Len(running.procs[t].points)
    /\ LET p == running.procs[t]
       IN /\ running' = [running EXCEPT !.procs[t] = Idle]
          /\ calls' = Append(calls,
                 [op |-> "count_entry_exit_cycles", id |-> p.id, vehicle |-> p.vehicle,
                  points |-> p.points, pre |-> p.pre,
                  post |-> vehicle_states,
                  cycles_count |-> p.cycles_count,
                  concurrent |-> p.concurrent, overlaps |-> p.overlaps])
    /\ UNCHANGED <<geofences, vehicle_states>>

\* lines 187-188: current_state is stored under the vehicle key and the counts
\* are returned
Finish(t) ==
    /\ running.procs[t].pc = "check"
    /\ running.procs[t].i > Len(running.procs[t].points)
    /\ LET p == running.procs[t]
           refs == Put(running.refs, p.vehicle, p.current_state)
       IN /\ running' = [running EXCEPT !.refs = refs, !.procs[t] = Idle]
          /\ vehicle_states' = StatesOf(running.heap, refs)
          /\ calls' = Append(calls,
                 [op |-> "count_entry_exit_cycles", id |-> p.id, vehicle |-> p.vehicle,
                  points |-> p.points, pre |-> p.pre,
                  post |-> StatesOf(running.heap, refs),
                  cycles_count |-> p.cycles_count,
                  concurrent |-> p.concurrent, overlaps |-> p.overlaps])
    /\ UNCHANGED geofences

NextThreads == \E t \in Threads : Begin(t) \/ Check(t) \/ Update(t) \/ Finish(t)

SpecThreads == InitThreads /\ [][NextThreads]_vars

(***************************************************************************)
(* Vocabulary of the properties.                                           *)
(***************************************************************************)
\* the zone a well-formed point is classified into, None outside every zone
ZoneOf(point) == Get(find_geofence(geofences, point.lat, point.lon), "geofence_id", None)

\* the zones of the points of a trace of well-formed points, in order
RECURSIVE ClassesFrom(_, _)
ClassesFrom(points, j) ==
    IF j > Len(points) THEN << >>
    ELSE <<ZoneOf(points[j])>> \o ClassesFrom(points, j + 1)

Classes(points) == ClassesFrom(points, 1)

AllWellFormed(points) == \A j \in 1..Len(points) : WellFormed(points[j])

\* call i went to the long-lived analyzer / to the batch entry point
Direct(i) == calls[i].op = "analyze_vehicle_data"
Weekly(i) == calls[i].op = "analyze_weekly_geofence_data"

\* call i analysed a non-empty trace of coordinates
Analysed(i) == Len(calls[i].points) > 0 /\ AllWellFormed(calls[i].points)

\* the tracked zone of call i's vehicle when the call starts
StartOf(i) == Get(calls[i].pre, calls[i].vehicle, [current_geofence |-> None]).current_geofence

\* the tracked zone of call i's vehicle when the call has returned
EndOf(i) == Get(calls[i].post, calls[i].vehicle, [current_geofence |-> None]).current_geofence

\* the steps of the counting loop of call i
TrailOf(i) ==
    count_entry_exit_cycles(geofences, calls[i].pre, calls[i].vehicle, calls[i].points).trail

\* the points of a trace at which a departure from zone z is observed: the
\* tracked zone is z and the point is not inside z
Departures(start, cls, z) ==
    {j \in 1..Len(cls) : (IF j = 1 THEN start ELSE cls[j - 1]) = z /\ cls[j] # z}

\* the zones billed by real distance that the registry holds
RealZones == RealDistanceIds(GEOCERCA_KM_VALUES) \cap GeofenceIds(geofences)

(***************************************************************************)
(* C1: every point processed by count_entry_exit_cycles either observes a  *)
(* departure (tracked zone Z, point not inside Z), which adds exactly one   *)
(* cycle to Z and to no other zone, or leaves every count as it was; in     *)
(* both cases the tracked zone becomes the zone of the point.               *)
(***************************************************************************)
C1_StepRule(e) ==
    /\ e.after = e.match
    /\ IF e.before # None /\ e.match # e.before
       THEN \A z \in DOMAIN e.cycles_before :
                e.cycles_after[z] = e.cycles_before[z] + (IF z = e.before THEN 1 ELSE 0)
       ELSE e.cycles_after = e.cycles_before

C1_TrailRule(i, trail) ==
    /\ Len(trail) = Cardinality({j \in 1..Len(calls[i].points) : WellFormed(calls[i].points[j])})
    /\ \A j \in 1..Len(trail) :
        /\ trail[j].match = ZoneOf(calls[i].points[j])
        /\ trail[j].before = (IF j = 1 THEN StartOf(i) ELSE trail[j - 1].after)
        /\ trail[j].cycles_before = (IF j = 1 THEN [z \in GeofenceIds(geofences) |-> 0]
                                     ELSE trail[j - 1].cycles_after)
        /\ DOMAIN trail[j].cycles_after = GeofenceIds(geofences)
        /\ C1_StepRule(trail[j])
    /\ Analysed(i) =>
        /\ calls[i].cycles_count = trail[Len(trail)].cycles_after
        /\ EndOf(i) = trail[Len(trail)].after

C1_EveryPointFollowsTheCycleRule ==
    \A i \in 1..Len(calls) : Direct(i) => C1_TrailRule(i, TrailOf(i))

\* a call that observed a departure to another zone and a point without one
C1_DepartureAndStayProcessed ==
    \E i \in 1..Len(calls) :
        /\ Direct(i) /\ Analysed(i)
        /\ \E j \in 1..Len(calls[i].points) :
              /\ TrailOf(i)[j].before = "colombia"
              /\ TrailOf(i)[j].match = "nuevo_laredo"
              /\ TrailOf(i)[j].cycles_after["colombia"] = 1
        /\ \E j \in 1..Len(calls[i].points) :
              /\ TrailOf(i)[j].before = "colombia"
              /\ TrailOf(i)[j].match = "colombia"

(***************************************************************************)
(* C2: a trace split at any index into two consecutive calls for the same  *)
(* vehicle, the first on a tracker that has no state for it, gives for      *)
(* every zone two cycle counts whose sum is the count of one call over the  *)
(* whole trace on a fresh analyzer.                                         *)
(***************************************************************************)
C2_SplitPair(i) ==
    /\ Direct(i) /\ Direct(i + 1)
    /\ calls[i].vehicle = calls[i + 1].vehicle
    /\ calls[i].vehicle \notin DOMAIN calls[i].pre
    /\ Analysed(i) /\ Analysed(i + 1)

C2_SumsTo(first, second, whole) ==
    /\ DOMAIN whole.result = GeofenceIds(geofences)
    /\ DOMAIN first.result = GeofenceIds(geofences)
    /\ DOMAIN second.result = GeofenceIds(geofences)
    /\ \A z \in GeofenceIds(geofences) :
          first.result[z].cycles + second.result[z].cycles = whole.result[z].cycles

C2_SplitCallsSumToWholeTrace ==
    \A i \in 1..(Len(calls) - 1) :
        C2_SplitPair(i) =>
            C2_SumsTo(calls[i], calls[i + 1],
                      analyze_vehicle_data(geofences, EmptyDict, calls[i].vehicle,
                                           calls[i].points \o calls[i + 1].points))

\* a split that falls inside a visit to colombia, which the second call ends
C2_SplitInsideColombia ==
    \E i \in 1..(Len(calls) - 1) :
        /\ C2_SplitPair(i)
        /\ ZoneOf(calls[i].points[Len(calls[i].points)]) = "colombia"
        /\ ZoneOf(calls[i + 1].points[1]) = "colombia"
        /\ calls[i].result["colombia"].cycles = 0
        /\ calls[i + 1].result["colombia"].cycles = 1

(***************************************************************************)
(* C3: a step straight from inside zone A to inside another zone B adds    *)
(* exactly one cycle to A and none to B; a zone's count only ever grows at  *)
(* a point where that zone is left.                                         *)
(***************************************************************************)
C3_StepRule(e) ==
    /\ (e.before # None /\ e.match # None /\ e.before # e.match) =>
          /\ e.cycles_after[e.before] = e.cycles_before[e.before] + 1
          /\ e.cycles_after[e.match] = e.cycles_before[e.match]
    /\ \A z \in DOMAIN e.cycles_after :
          e.cycles_after[z] # e.cycles_before[z] => (e.before = z /\ e.match # z)

C3_TrailRule(i, trail) ==
    /\ \A j \in 1..Len(trail) : C3_StepRule(trail[j])
    /\ Analysed(i) =>
          \A z \in GeofenceIds(geofences) :
              calls[i].result[z].cycles = trail[Len(trail)].cycles_after[z]

C3_ZoneToZoneCountsTheZoneLeft ==
    \A i \in 1..Len(calls) : Direct(i) => C3_TrailRule(i, TrailOf(i))

\* colombia straight to nuevo_laredo and then out: one cycle each, in turn
C3_ColombiaThenNuevoLaredo ==
    \E i \in 1..Len(calls) :
        /\ Direct(i) /\ Analysed(i) /\ Len(calls[i].points) = 3
        /\ StartOf(i) = None
        /\ Classes(calls[i].points) = <<"colombia", "nuevo_laredo", None>>
        /\ TrailOf(i)[2].cycles_after["colombia"] = 1
        /\ TrailOf(i)[2].cycles_after["nuevo_laredo"] = 0
        /\ calls[i].result["nuevo_laredo"].cycles = 1

(***************************************************************************)
(* C4: a cycle is counted only where the departure is observed.  A call    *)
(* whose trace ends inside zone Z reports for Z only the departures seen    *)
(* before that last visit and leaves Z as the tracked zone; the first later *)
(* call for the same vehicle with a point not inside Z reports the cycle of *)
(* that visit, and the calls in between report none for Z.                  *)
(***************************************************************************)
\* the zone of the last point of call i's trace
LastZone(i) == ZoneOf(calls[i].points[Len(calls[i].points)])

\* the index at which the last visit of a trace that ends inside z starts
FinalVisitStart(cls, z) ==
    CHOOSE j \in 1..Len(cls) :
        /\ \A k \in j..Len(cls) : cls[k] = z
        /\ j = 1 \/ cls[j - 1] # z

\* the index of the first point not inside z
FirstOutside(cls, z) ==
    CHOOSE j \in 1..Len(cls) : cls[j] # z /\ \A k \in 1..(j - 1) : cls[k] = z

C4_OpenVisitNotCounted(i, z, cls) ==
    /\ calls[i].result[z].cycles =
          Cardinality(Departures(StartOf(i), SubSeq(cls, 1, FinalVisitStart(cls, z) - 1), z))
    /\ EndOf(i) = z

\* k is the first call after i, for the same vehicle, with a point not inside
\* z, the zone in which the trace of call i ends
C4_FirstLaterDeparture(i, k, z) ==
    /\ i < k /\ Direct(k) /\ Analysed(k)
    /\ calls[k].vehicle = calls[i].vehicle
    /\ \E j \in 1..Len(calls[k].points) : ZoneOf(calls[k].points[j]) # z
    /\ \A m \in (i + 1)..(k - 1) :
          (Direct(m) /\ calls[m].vehicle = calls[i].vehicle) =>
              /\ AllWellFormed(calls[m].points)
              /\ \A j \in 1..Len(calls[m].points) : ZoneOf(calls[m].points[j]) = z

C4_VisitCountedIn(i, k, z, cls) ==
    /\ calls[k].result[z].cycles =
          1 + Cardinality(Departures(None, SubSeq(cls, FirstOutside(cls, z), Len(cls)), z))
    /\ \A m \in (i + 1)..(k - 1) :
          (Direct(m) /\ calls[m].vehicle = calls[i].vehicle /\ Len(calls[m].points) > 0) =>
              calls[m].result[z].cycles = 0

C4_EndingInside(i, z) ==
    z # None =>
        /\ C4_OpenVisitNotCounted(i, z, Classes(calls[i].points))
        /\ \A k \in (i + 1)..Len(calls) :
              C4_FirstLaterDeparture(i, k, z) =>
                  C4_VisitCountedIn(i, k, z, Classes(calls[k].points))

C5_VisitAcrossDays(i, z) ==
    /\ Weekly(i) /\ Weekly(i + 1)
    /\ calls[i].vehicle = calls[i + 1].vehicle
    /\ Analysed(i) /\ Analysed(i + 1)
    /\ ZoneOf(calls[i].points[Len(calls[i].points)]) = z
    /\ \E j \in 1..Len(calls[i + 1].points) : ZoneOf(calls[i + 1].points[j]) # z

C5_VisitAcrossDaysCountedOnce ==
    \A i \in 1..(Len(calls) - 1) : \A z \in GeofenceIds(geofences) :
        C5_VisitAcrossDays(i, z) =>
            calls[i].result[z].cycles + calls[i + 1].result[z].cycles =
                Cardinality(Departures(None,
                    Classes(calls[i].points) \o Classes(calls[i + 1].points), z))

(***************************************************************************)
(* C6: on a fresh analyzer, a trace that starts outside every zone, enters *)
(* colombia once and leaves it once gives colombia one cycle and 60 km,     *)
(* however many consecutive samples lie inside.                             *)
(***************************************************************************)
\* the samples inside the zone, at the indices in inside, are consecutive and
\* neither the first nor the last of the n samples
C6_OneVisit(inside, n) ==
    /\ inside # {}
    /\ 1 \notin inside /\ n \notin inside
    /\ \A j \in inside : j + 1 \in inside \/ \A k \in inside : k <= j

C6_EntersAndLeavesOnce(i, z) ==
    /\ Direct(i) /\ Analysed(i)
    /\ calls[i].pre = EmptyDict
    /\ ZoneOf(calls[i].points[1]) = None
    /\ C6_OneVisit({j \in 1..Len(calls[i].points) : ZoneOf(calls[i].points[j]) = z},
                   Len(calls[i].points))

C6_OneColombiaVisitIsSixtyKm ==
    \A i \in 1..Len(calls) :
        C6_EntersAndLeavesOnce(i, "colombia") =>
            /\ calls[i].result["colombia"].cycles = 1
            /\ calls[i].result["colombia"].total_km = 60

\* a visit with two consecutive samples inside colombia
C6_TwoSamplesInsideColombia ==
    \E i \in 1..Len(calls) :
        /\ C6_EntersAndLeavesOnce(i, "colombia")
        /\ Classes(calls[i].points) = <<None, "colombia", "colombia", None>>
        /\ calls[i].result["colombia"].total_km = 60

(***************************************************************************)
(* C7: for a zone billed by real distance, the total of one call is the    *)
(* sum of the distances of the consecutive sample pairs that lie inside    *)
(* the zone with both points; every other pair adds nothing.               *)
(***************************************************************************)
RECURSIVE SameZonePairsKm(_, _, _)
SameZonePairsKm(points, z, j) ==
    IF j >= Len(points) THEN 0
    ELSE (IF ZoneOf(points[j]) = z /\ ZoneOf(points[j + 1]) = z
          THEN calculate_distance(points[j].lat, points[j].lon,
                                  points[j + 1].lat, points[j + 1].lon)
          ELSE 0)
         + SameZonePairsKm(points, z, j + 1)

C7_RealDistanceIsSumOfInsidePairs ==
    \A i \in 1..Len(calls) :
        (Direct(i) /\ Analysed(i)) =>
            \A z \in RealZones :
                /\ calls[i].real_distances[z] = SameZonePairsKm(calls[i].points, z, 1)
                /\ calls[i].result[z].total_km = SameZonePairsKm(calls[i].points, z, 1)

\* colombia straight into nuevo_laredo, then three samples inside: two segments
C7_ThreeSamplesInsideNuevoLaredo ==
    \E i \in 1..Len(calls) :
        /\ Direct(i) /\ Analysed(i)
        /\ calls[i].points = <<Pt(1, 3), Pt(1, 6), Pt(1, 7), Pt(1, 6)>>
        /\ calls[i].result["nuevo_laredo"].total_km = 2

(***************************************************************************)
(* C8: in the composed result a zone with a fixed rate has total_km =      *)
(* cycles * rate; any other zone has total_km = its entry of the real      *)
(* distances, 0 without an entry, whatever its cycle count; the cycle count *)
(* of every zone is reported as counted.                                    *)
(***************************************************************************)
C8_Composed(call, z) ==
    /\ call.result[z].cycles = call.cycles_count[z]
    /\ IF Get(GEOCERCA_KM_VALUES, z, Nothing) # Nothing
       THEN /\ call.result[z].total_km = call.cycles_count[z] * GEOCERCA_KM_VALUES[z][1]
            /\ call.result[z].type = "fixed_km"
       ELSE /\ call.result[z].total_km = Get(call.real_distances, z, 0)
            /\ call.result[z].type = "real_km"

C8_TotalKmFollowsBillingMode ==
    \A i \in 1..Len(calls) :
        (Direct(i) /\ Analysed(i)) =>
            /\ DOMAIN calls[i].result = DOMAIN calls[i].cycles_count
            /\ \A z \in DOMAIN calls[i].result : C8_Composed(calls[i], z)

\* one cycle of colombia at its rate, and nuevo_laredo with distance but no cycle
C8_FixedAndRealInOneResult ==
    \E i \in 1..Len(calls) :
        /\ Direct(i) /\ Analysed(i)
        /\ calls[i].result["colombia"].cycles = 1
        /\ calls[i].result["colombia"].total_km = 60
        /\ calls[i].result["nuevo_laredo"].cycles = 0
        /\ calls[i].result["nuevo_laredo"].total_km = 2

(***************************************************************************)
(* C9: an exception raised while a non-empty trace is analysed never       *)
(* reaches the caller of analyze_vehicle_data; the call returns {}.         *)
(***************************************************************************)
C9_ExceptionsEndInEmptyResult ==
    \A i \in 1..Len(calls) :
        Direct(i) =>
            /\ ~calls[i].propagated
            /\ ~AllWellFormed(calls[i].points) => calls[i].raised
            /\ calls[i].raised => calls[i].result = EmptyDict

\* a trace that fails at its third point
C9_RaisedPartWay ==
    \E i \in 1..Len(calls) :
        /\ Direct(i) /\ calls[i].raised
        /\ Len(calls[i].points) = 3
        /\ calls[i].result = EmptyDict

(***************************************************************************)
(* C10: a call with an empty point sequence returns {} without raising and *)
(* leaves the tracker's state map exactly as it was.                        *)
(***************************************************************************)
C10_EmptyTraceChangesNothing ==
    \A i \in 1..Len(calls) :
        (Direct(i) /\ Len(calls[i].points) = 0) =>
            /\ calls[i].result = EmptyDict
            /\ ~calls[i].raised /\ ~calls[i].propagated
            /\ calls[i].post = calls[i].pre

\* an empty trace for a vehicle without an entry, on a tracker that has one
\* for the other vehicle
C10_EmptyTraceForUnknownVehicle ==
    \E i \in 1..Len(calls) :
        /\ Direct(i) /\ Len(calls[i].points) = 0
        /\ calls[i].vehicle \notin DOMAIN calls[i].pre
        /\ calls[i].pre # EmptyDict
        /\ vehicle_states = calls[i].pre

(***************************************************************************)
(* C11: find_geofence returns at most one zone: the first zone, in the     *)
(* insertion order of the loaded definition, whose polygon contains the    *)
(* point, and Outside when no polygon contains it; two lookups of the same  *)
(* point on the same registry return the same answer.                       *)
(***************************************************************************)
\* call i constructed the analyzer / looked a point up
Constructed(i) == calls[i].op = "GeofenceAnalyzer"
Lookup(i) == calls[i].op = "find_geofence"

\* the positions, in insertion order, of the zones whose polygon contains the point
Containing(point) ==
    {k \in 1..Len(geofences) : Contains(geofences[k].polygon, point.lat, point.lon)}

C11_FirstOf(result, containing) ==
    IF containing = {}
    THEN result = [inside |-> FALSE]
    ELSE /\ result.inside
         /\ \E k \in containing :
               /\ \A m \in containing : k <= m
               /\ result.geofence_id = geofences[k].geofence_id
               /\ result.geofence_name = geofences[k].name

C11_FirstContainingZoneOrOutside ==
    \A i \in 1..Len(calls) :
        Lookup(i) =>
            /\ C11_FirstOf(calls[i].result, Containing(calls[i].points[1]))
            /\ \A k \in 1..Len(calls) :
                  (Lookup(k) /\ calls[k].points = calls[i].points) =>
                      calls[k].result = calls[i].result

\* the same point of the overlap looked up twice, where colombia is listed
\* before nuevo_laredo, and a point outside every polygon
C11_OverlapLookedUpTwice ==
    \E i \in 1..Len(calls) : \E k \in (i + 1)..Len(calls) :
        /\ Lookup(i) /\ Lookup(k)
        /\ calls[i].points = <<Pt(1, 6)>> /\ calls[k].points = <<Pt(1, 6)>>
        /\ Cardinality(Containing(Pt(1, 6))) = 2
        /\ calls[i].result.geofence_id = "colombia"
        /\ calls[k].result.geofence_id = "colombia"

(***************************************************************************)
(* C12, as stated: a point lying exactly on an edge or a vertex of a zone's *)
(* polygon is classified by find_geofence as inside that zone (or inside a  *)
(* zone listed before it that holds the point as well).                     *)
(***************************************************************************)
\* the point lies on an edge or on a vertex of the rectangle
OnBoundary(polygon, point) ==
    /\ polygon.xmin <= point.lon /\ point.lon <= polygon.xmax
    /\ polygon.ymin <= point.lat /\ point.lat <= polygon.ymax
    /\ point.lon \in {polygon.xmin, polygon.xmax} \/ point.lat \in {polygon.ymin, polygon.ymax}

\* the point lies strictly between the edges of the rectangle
InInterior(polygon, point) ==
    /\ polygon.xmin < point.lon /\ point.lon < polygon.xmax
    /\ polygon.ymin < point.lat /\ point.lat < polygon.ymax

C12_EdgePointIsInside ==
    \A i \in 1..Len(calls) :
        Lookup(i) =>
            \A k \in 1..Len(geofences) :
                OnBoundary(geofences[k].polygon, calls[i].points[1]) =>
                    /\ calls[i].result.inside
                    /\ \E m \in 1..k : calls[i].result.geofence_id = geofences[m].geofence_id

(***************************************************************************)
(* C12, amended: a point lying exactly on an edge or a vertex of a zone's   *)
(* polygon is never classified into that zone; find_geofence returns        *)
(* Outside for it unless the point lies in the interior of another zone's   *)
(* polygon, and then it returns that zone.                                  *)
(***************************************************************************)
C12_EdgePointIsNotInside ==
    \A i \in 1..Len(calls) :
        Lookup(i) =>
            \A k \in 1..Len(geofences) :
                OnBoundary(geofences[k].polygon, calls[i].points[1]) =>
                    /\ calls[i].result.inside =>
                          calls[i].result.geofence_id # geofences[k].geofence_id
                    /\ ~calls[i].result.inside <=>
                          \A m \in 1..Len(geofences) :
                              ~InInterior(geofences[m].polygon, calls[i].points[1])

\* the point on the edge shared by aduana_420 and colombia is outside both, and
\* a point on the edge of nuevo_laredo is classified into colombia where the
\* colombia polygon reaches over it
C12_SharedEdgeIsOutside ==
    /\ \E i \in 1..Len(calls) :
        /\ Lookup(i) /\ calls[i].points = <<Pt(1, 2)>>
        /\ \E k \in 1..Len(geofences) : OnBoundary(geofences[k].polygon, Pt(1, 2))
        /\ calls[i].result = [inside |-> FALSE]
    /\ \E i \in 1..Len(calls) :
        /\ Lookup(i) /\ calls[i].points = <<Pt(1, 5)>>
        /\ \E k \in 1..Len(geofences) :
              /\ geofences[k].geofence_id = "nuevo_laredo"
              /\ OnBoundary(geofences[k].polygon, Pt(1, 5))
        /\ calls[i].result.inside /\ calls[i].result.geofence_id = "colombia"

(***************************************************************************)
(* C13: for a non-empty trace analysed without exception the result has    *)
(* one metric for every zone of the registry and no other key; a zone that  *)
(* saw no activity in the call (no point inside it, and not the zone the    *)
(* vehicle was tracked in) has cycles = 0 and total_km = 0.                 *)
(***************************************************************************)
C13_NoActivityIn(i, z) ==
    /\ StartOf(i) # z
    /\ \A j \in 1..Len(calls[i].points) : ZoneOf(calls[i].points[j]) # z

C13_OneMetricForEveryZone ==
    \A i \in 1..Len(calls) :
        (Direct(i) /\ Analysed(i)) =>
            /\ ~calls[i].raised
            /\ DOMAIN calls[i].result = GeofenceIds(geofences)
            /\ \A z \in GeofenceIds(geofences) :
                  /\ DOMAIN calls[i].result[z] = {"cycles", "total_km", "type"}
                  /\ C13_NoActivityIn(i, z) =>
                        /\ calls[i].result[z].cycles = 0
                        /\ calls[i].result[z].total_km = 0

\* a call that counts a cycle for aduana_420 and zero-fills the three other
\* zones of a registry of four
C13_ZeroFilledZones ==
    \E i \in 1..Len(calls) :
        /\ Direct(i) /\ Analysed(i)
        /\ Cardinality(GeofenceIds(geofences)) = 4
        /\ calls[i].result["aduana_420"].cycles = 1
        /\ \A z \in GeofenceIds(geofences) \ {"aduana_420"} :
              /\ C13_NoActivityIn(i, z)
              /\ calls[i].result[z].cycles = 0 /\ calls[i].result[z].total_km = 0

(***************************************************************************)
(* C14: on a fresh analyzer, a non-empty trace whose points all lie outside *)
(* every zone polygon gives zero cycles and zero total_km for every zone of *)
(* the registry.                                                            *)
(***************************************************************************)
\* no polygon of the registry holds the point in its interior
OutsideEveryZone(point) ==
    \A m \in 1..Len(geofences) : ~InInterior(geofences[m].polygon, point)

C14_AllOutside(i) ==
    /\ Direct(i) /\ Analysed(i)
    /\ calls[i].pre = EmptyDict
    /\ \A j \in 1..Len(calls[i].points) : OutsideEveryZone(calls[i].points[j])

C14_TraceOutsideGivesZeros ==
    \A i \in 1..Len(calls) :
        C14_AllOutside(i) =>
            /\ DOMAIN calls[i].result = GeofenceIds(geofences)
            /\ \A z \in GeofenceIds(geofences) :
                  /\ calls[i].result[z].cycles = 0
                  /\ calls[i].result[z].total_km = 0

\* a trace of three points outside, two of them distinct places
C14_ThreePointsOutside ==
    \E i \in 1..Len(calls) :
        /\ C14_AllOutside(i)
        /\ calls[i].points = <<Pt(1, 4), Pt(1, 9), Pt(1, 4)>>
        /\ calls[i].result["nuevo_laredo"].total_km = 0
        /\ calls[i].result["colombia"].cycles = 0

(***************************************************************************)
(* C15: the total km reported for one call is the sum of total_km over the *)
(* zones of the result, and no sample pair's distance is credited to more   *)
(* than one zone, also where polygons overlap: the total is the fixed-rate  *)
(* km of the counted cycles plus, once for each consecutive pair whose two  *)
(* points are classified into the same real-distance zone, its distance.    *)
(***************************************************************************)
\* the zones a consecutive pair of points is credited to
CreditedZones(p, q) ==
    {z \in GeofenceIds(geofences) : IsInside(geofences, p, z) /\ IsInside(geofences, q, z)}

\* the km of the fixed-rate zones in S, at their rates
RECURSIVE FixedKm(_, _)
FixedKm(cycles_count, S) ==
    IF S = {} THEN 0
    ELSE LET z == CHOOSE x \in S : TRUE
         IN (IF Get(GEOCERCA_KM_VALUES, z, Nothing) # Nothing
             THEN cycles_count[z] * GEOCERCA_KM_VALUES[z][1] ELSE 0)
            + FixedKm(cycles_count, S \ {z})

\* the distance of every consecutive pair from index j on, counted once when
\* the zone of both points is one real-distance zone of the registry
RECURSIVE PairsKmOnce(_, _)
PairsKmOnce(points, j) ==
    IF j >= Len(points) THEN 0
    ELSE (IF ZoneOf(points[j]) = ZoneOf(points[j + 1]) /\ ZoneOf(points[j]) \in RealZones
          THEN calculate_distance(points[j].lat, points[j].lon,
                                  points[j + 1].lat, points[j + 1].lon)
          ELSE 0)
         + PairsKmOnce(points, j + 1)

C15_NoDoubleCounting(call) ==
    /\ call.total_km # Nothing
    /\ call.total_km[1] = FixedKm(call.cycles_count, DOMAIN call.cycles_count)
                          + PairsKmOnce(call.points, 1)
    /\ \A j \in 1..(Len(call.points) - 1) :
          Cardinality(CreditedZones(call.points[j], call.points[j + 1])) <= 1

C15_TotalIsSumOverZonesWithoutDoubleCounting ==
    \A i \in 1..Len(calls) :
        (Direct(i) /\ Analysed(i)) => C15_NoDoubleCounting(calls[i])

\* nuevo_laredo listed before a colombia polygon that reaches into it: a pair
\* that starts at a point both polygons hold is credited to nuevo_laredo
\* alone, and the total is one colombia cycle plus that pair
C15_PairInsideTheOverlap ==
    \E i \in 1..Len(calls) :
        /\ Direct(i) /\ Analysed(i)
        /\ calls[i].points = <<Pt(1, 3), Pt(1, 6), Pt(1, 7)>>
        /\ Cardinality(Containing(Pt(1, 6))) = 2
        /\ CreditedZones(Pt(1, 6), Pt(1, 7)) = {"nuevo_laredo"}
        /\ calls[i].result["colombia"].total_km = 60
        /\ calls[i].result["nuevo_laredo"].total_km = 1
        /\ calls[i].total_km = Some(61)

(***************************************************************************)
(* C16, as stated: with the zones aduana_420 (37 km a cycle), colombia (60 *)
(* km a cycle) and nuevo_laredo (real distance), a fresh analyzer given 5   *)
(* points entering and leaving aduana_420 once and then 10 points along a   *)
(* path through nuevo_laredo reports aduana_420 cycles 1 and 37 km,         *)
(* colombia cycles 0 and 0 km, and nuevo_laredo cycles 1 and the length of  *)
(* that path as total_km.                                                   *)
(***************************************************************************)
\* the length of the path through the points j..k
RECURSIVE PathKm(_, _, _)
PathKm(points, j, k) ==
    IF j >= k THEN 0
    ELSE calculate_distance(points[j].lat, points[j].lon, points[j + 1].lat, points[j + 1].lon)
         + PathKm(points, j + 1, k)

C16_FixedRateZones(result) ==
    /\ result["aduana_420"].cycles = 1 /\ result["aduana_420"].total_km = 37
    /\ result["colombia"].cycles = 0 /\ result["colombia"].total_km = 0

C16_ScenarioAsStated ==
    \A i \in 1..Len(calls) :
        (Direct(i) /\ Len(calls[i].points) = 15) =>
            /\ DOMAIN calls[i].result = {"aduana_420", "colombia", "nuevo_laredo"}
            /\ C16_FixedRateZones(calls[i].result)
            /\ calls[i].result["nuevo_laredo"].cycles = 1
            /\ calls[i].result["nuevo_laredo"].total_km = PathKm(calls[i].points, 6, 15)

(***************************************************************************)
(* C16, amended: in that scenario aduana_420 has cycles 1 and 37 km,        *)
(* colombia cycles 0 and 0 km, and nuevo_laredo has the length of the path  *)
(* between its 10 points as total_km, with cycles 0 while the trace ends    *)
(* inside nuevo_laredo; its cycle is 1 when the trace goes on to a point    *)
(* outside nuevo_laredo, and that last segment adds no km.                  *)
(***************************************************************************)
C16_ScenarioWithOpenVisit ==
    \A i \in 1..Len(calls) :
        Direct(i) =>
            /\ DOMAIN calls[i].result = {"aduana_420", "colombia", "nuevo_laredo"}
            /\ C16_FixedRateZones(calls[i].result)
            /\ calls[i].result["nuevo_laredo"].total_km = PathKm(calls[i].points, 6, 15)
            /\ calls[i].result["nuevo_laredo"].cycles =
                  (IF Len(calls[i].points) = 15 THEN 0 ELSE 1)
            /\ EndOf(i) = (IF Len(calls[i].points) = 15 THEN "nuevo_laredo" ELSE None)

\* the scenario with a path of 9 units through nuevo_laredo, ending inside it
C16_NinePathUnitsEndingInside ==
    \E i \in 1..Len(calls) :
        /\ Direct(i) /\ Len(calls[i].points) = 15
        /\ SubSeq(calls[i].points, 1, 5) = <<Pt(1, 4), Pt(1, 1), Pt(1, 1), Pt(1, 1), Pt(1, 4)>>
        /\ PathKm(calls[i].points, 6, 15) = 9
        /\ calls[i].result["aduana_420"].total_km = 37
        /\ calls[i].result["nuevo_laredo"].total_km = 9
        /\ calls[i].result["nuevo_laredo"].cycles = 0

(***************************************************************************)
(* C17: every metric of a result carries the fields km_per_cycle and       *)
(* real_distance_km: a fixed-rate zone has km_per_cycle = its rate and      *)
(* real_distance_km = None, a real-distance zone has km_per_cycle = None    *)
(* and real_distance_km = the accumulated distance.                         *)
(***************************************************************************)
C17_Metric(call, z) ==
    /\ {"km_per_cycle", "real_distance_km"} \subseteq DOMAIN call.result[z]
    /\ IF Get(GEOCERCA_KM_VALUES, z, Nothing) # Nothing
       THEN /\ call.result[z].km_per_cycle = GEOCERCA_KM_VALUES[z]
            /\ call.result[z].real_distance_km = Nothing
       ELSE /\ call.result[z].km_per_cycle = Nothing
            /\ call.result[z].real_distance_km = Some(Get(call.real_distances, z, 0))

C17_MetricCarriesRateAndDistance ==
    \A i \in 1..Len(calls) :
        (Direct(i) /\ Analysed(i)) =>
            \A z \in DOMAIN calls[i].result : C17_Metric(calls[i], z)

(***************************************************************************)
(* C18: when the zone definition source is missing or malformed the        *)
(* registry holds zero zones, find_geofence returns Outside for every      *)
(* point, and analyze_vehicle_data returns without raising and reports no  *)
(* zone activity, whatever the trace.                                      *)
(***************************************************************************)
\* the analyzer was constructed from a source whose load failed
FailedLoad == calls # << >> /\ Constructed(1) /\ LoadRaises(calls[1].file)

C18_FailedLoadLeavesEmptyRegistry ==
    FailedLoad =>
        /\ geofences = << >>
        /\ calls[1].geofences = << >>
        /\ \A i \in 1..Len(calls) :
              /\ Lookup(i) => calls[i].result = [inside |-> FALSE]
              /\ Direct(i) => /\ ~calls[i].propagated
                              /\ calls[i].result = EmptyDict
                              /\ Analysed(i) => /\ ~calls[i].raised
                                                /\ calls[i].total_km = Some(0)

\* a file that fails at its second feature: a point of the first feature's
\* polygon is outside, and a trace through it reports nothing
C18_MalformedFileThenLookupAndTrace ==
    /\ FailedLoad /\ calls[1].file.exists
    /\ \E i \in 1..Len(calls) :
          Lookup(i) /\ calls[i].points = <<Pt(1, 1)>> /\ ~calls[i].result.inside
    /\ \E i \in 1..Len(calls) :
          /\ Direct(i) /\ calls[i].points = <<Pt(1, 1)>>
          /\ calls[i].result = EmptyDict

(***************************************************************************)
(* C19: when the zone definition source is missing or malformed, the       *)
(* construction of the registry reports the failure to its caller as an    *)
(* error outcome, which differs from the outcome of loading a definition    *)
(* that holds zero zones.                                                   *)
(***************************************************************************)
C19_FailedLoadIsReported ==
    \A i \in 1..Len(calls) :
        (Constructed(i) /\ LoadRaises(calls[i].file)) =>
            /\ calls[i].raised
            /\ [raised |-> calls[i].raised, geofences |-> calls[i].geofences]
                  # GeofenceService(EmptyFile)

(***************************************************************************)
(* C20: a failed trace fetch and a successful fetch of zero points cannot  *)
(* be told apart: in both cases analyze_weekly_geofence_data returns {},    *)
(* raises nothing and touches no cycle-tracking state.                      *)
(***************************************************************************)
\* what the caller of call i can observe
Observed(i) ==
    [result |-> calls[i].result, propagated |-> calls[i].propagated,
     states |-> calls[i].post]

C20_NoPoints(i) == Weekly(i) /\ Len(calls[i].points) = 0

C20_FailedFetchIsAnEmptyTrace ==
    \A i \in 1..Len(calls) :
        C20_NoPoints(i) =>
            /\ calls[i].result = EmptyDict
            /\ ~calls[i].raised /\ ~calls[i].propagated
            /\ calls[i].post = calls[i].pre
            /\ vehicle_states = EmptyDict
            /\ \A k \in 1..Len(calls) : C20_NoPoints(k) => Observed(k) = Observed(i)

\* a fetch that failed and a fetch that delivered no record, in one batch
C20_FailedAndEmptyFetch ==
    \E i \in 1..Len(calls) : \E k \in 1..Len(calls) :
        /\ C20_NoPoints(i) /\ calls[i].fetch_failed
        /\ C20_NoPoints(k) /\ ~calls[k].fetch_failed
        /\ calls[i].vehicle = calls[k].vehicle
        /\ calls[i].result = EmptyDict /\ calls[k].result = EmptyDict

(***************************************************************************)
(* C21: calls for distinct vehicle keys on one tracker may interleave their *)
(* steps in any way: a call that no call for the same key overlaps returns  *)
(* the counts, and stores the state, of that call run alone from the state  *)
(* its vehicle had when it began; and no step of a call changes the entry   *)
(* of a vehicle other than its own.                                         *)
(***************************************************************************)
\* call i is a finished count_entry_exit_cycles call of a thread
CycleCall(i) == calls[i].op = "count_entry_exit_cycles"

\* the call run alone from the given state map
Alone(call, states) ==
    count_entry_exit_cycles(geofences, states, call.vehicle, call.points)

C21_AsAlone(call, alone) ==
    /\ call.cycles_count = alone.cycles_count
    /\ call.post[call.vehicle] = alone.vehicle_states[call.vehicle]

\* the entry of vehicle v, absent included
EntryOf(states, v) == Get(states, v, [current_geofence |-> "absent"])

\* a step that changes the entry of v is a step of a call for v
C21_OwnEntryOnly ==
    \A v \in Vehicles :
        EntryOf(vehicle_states', v) # EntryOf(vehicle_states, v) =>
            \E t \in Threads :
                /\ running.procs[t].pc # "idle"
                /\ running.procs[t].vehicle = v
                /\ running'.procs[t] # running.procs[t]

C21_DistinctVehiclesDoNotInterfere ==
    /\ [](\A i \in 1..Len(calls) :
            (CycleCall(i) /\ calls[i].overlaps = {}) =>
                C21_AsAlone(calls[i], Alone(calls[i], calls[i].pre)))
    /\ [][C21_OwnEntryOnly]_vars

\* two calls for different vehicles that ran at the same time, one counting a
\* cycle of aduana_420 and the other left inside colombia
C21_TwoVehiclesInterleaved ==
    \E i \in 1..Len(calls) : \E k \in 1..Len(calls) :
        /\ CycleCall(i) /\ CycleCall(k)
        /\ calls[i].vehicle # calls[k].vehicle
        /\ calls[k].id \in calls[i].concurrent
        /\ calls[i].overlaps = {} /\ calls[k].overlaps = {}
        /\ calls[i].cycles_count["aduana_420"] = 1
        /\ calls[k].post[calls[k].vehicle].current_geofence = "colombia"
        /\ calls[i].post[calls[i].vehicle].current_geofence = None

(***************************************************************************)
(* C22: calls for one vehicle key depend on their order and need to be      *)
(* serialized.  Two such calls that do not overlap give, together, the      *)
(* summed counts and the final state of the serial run in the order they    *)
(* were made; two that interleave their steps can end with summed counts or *)
(* a final state that neither serial order gives.                           *)
(***************************************************************************)
\* the summed counts and the final entry of two calls run one after the other
Serial(first, second, states) ==
    LET a == Alone(first, states)
        b == Alone(second, a.vehicle_states)
    IN [sum |-> [z \in GeofenceIds(geofences) |-> a.cycles_count[z] + b.cycles_count[z]],
        final |-> EntryOf(b.vehicle_states, first.vehicle)]

\* what calls i and k, of which k finished last, gave together
Together(i, k) ==
    [sum |-> [z \in GeofenceIds(geofences) |->
                 calls[i].cycles_count[z] + calls[k].cycles_count[z]],
     final |-> EntryOf(calls[k].post, calls[k].vehicle)]

\* i and k are calls for the same key, i finished before k, and no other call
\* for that key finished in between
C22_SameKeyPair(i, k) ==
    /\ i < k /\ CycleCall(i) /\ CycleCall(k)
    /\ calls[i].vehicle = calls[k].vehicle
    /\ \A m \in (i + 1)..(k - 1) : calls[m].vehicle # calls[i].vehicle

C22_SerializedCallsGiveTheSerialResult ==
    \A i \in 1..Len(calls) : \A k \in (i + 1)..Len(calls) :
        (C22_SameKeyPair(i, k) /\ calls[i].overlaps = {} /\ calls[k].overlaps = {}) =>
            Together(i, k) = Serial(calls[i], calls[k], calls[i].pre)

\* the state the vehicle had before the first of the two calls began
C22_Before(i, k) == IF calls[i].id < calls[k].id THEN calls[i].pre ELSE calls[k].pre

\* two interleaved calls for one key whose result is that of neither serial
\* order, the two serial orders differing from each other as well
C22_InterleavingGivesNeitherOrder ==
    \E i \in 1..Len(calls) : \E k \in (i + 1)..Len(calls) :
        /\ C22_SameKeyPair(i, k)
        /\ calls[k].id \in calls[i].overlaps
        /\ Together(i, k) # Serial(calls[i], calls[k], C22_Before(i, k))
        /\ Together(i, k) # Serial(calls[k], calls[i], C22_Before(i, k))
        /\ Serial(calls[i], calls[k], C22_Before(i, k))
              # Serial(calls[k], calls[i], C22_Before(i, k))

(***************************************************************************)
(* C23: the per-vehicle state map is changed by count_entry_exit_cycles     *)
(* alone, and by it only in the entry of the vehicle it is called for:      *)
(* find_geofence, the two real-distance functions and calculate_kilometers  *)
(* leave every entry as it was; and the entry a call writes is the state    *)
(* the next call for that key starts from.                                  *)
(***************************************************************************)
\* the last call before k that was made for the key of call k, 0 without one
PreviousFor(k) ==
    IF \E i \in 1..(k - 1) : CycleCall(i) /\ calls[i].vehicle = calls[k].vehicle
    THEN CHOOSE i \in 1..(k - 1) :
            /\ CycleCall(i) /\ calls[i].vehicle = calls[k].vehicle
            /\ \A m \in (i + 1)..(k - 1) :
                  ~(CycleCall(m) /\ calls[m].vehicle = calls[k].vehicle)
    ELSE 0

\* the zone the first point of call k is compared with
C23_FirstTracked(k) == TrailOf(k)[1].before

C23_StartsWhereTheLastCallEnded(k, i) ==
    /\ i = 0 => C23_FirstTracked(k) = None
    /\ i > 0 =>
          /\ C23_FirstTracked(k) = EndOf(i)
          /\ (~calls[i].raised /\ Len(calls[i].points) > 0) => EndOf(i) = LastZone(i)

C23_OnlyTheCounterChangesTheStateMap ==
    \A k \in 1..Len(calls) :
        /\ calls[k].pre = (IF k = 1 THEN EmptyDict ELSE calls[k - 1].post)
        /\ k = Len(calls) => calls[k].post = vehicle_states
        /\ ~CycleCall(k) => calls[k].post = calls[k].pre
        /\ CycleCall(k) =>
              /\ \A v \in Vehicles \ {calls[k].vehicle} :
                    EntryOf(calls[k].post, v) = EntryOf(calls[k].pre, v)
              /\ (Len(calls[k].points) > 0 /\ WellFormed(calls[k].points[1])) =>
                    C23_StartsWhereTheLastCallEnded(k, PreviousFor(k))

\* a call that ends inside aduana_420, then another function of the core, and
\* then a call for the same key that counts the departure
C23_StateCarriedPastOtherFunctions ==
    \E i \in 1..Len(calls) : \E k \in (i + 2)..Len(calls) :
        /\ CycleCall(i) /\ CycleCall(k) /\ PreviousFor(k) = i
        /\ Len(calls[k].points) > 0 /\ ~calls[k].raised
        /\ EndOf(i) = "aduana_420"
        /\ ~CycleCall(i + 1)
        /\ calls[i + 1].post = calls[i].post
        /\ C23_FirstTracked(k) = "aduana_420"
        /\ calls[k].cycles_count["aduana_420"] = 1

(***************************************************************************)
(* C24: when analyze_vehicle_data fails with an exception part-way through *)
(* a trace and returns {}, the persisted state of the vehicle is what it    *)
(* was before the call, for a vehicle seen for the first time and for one   *)
(* that has an entry, so that a departure observed in the failed call is    *)
(* counted by a later call.                                                 *)
(***************************************************************************)
C24_FailedCallLeavesStateAsBefore ==
    \A i \in 1..Len(calls) :
        (Direct(i) /\ calls[i].raised) =>
            /\ calls[i].result = EmptyDict
            /\ calls[i].post = calls[i].pre

(***************************************************************************)
(* C25: after any sequence of count_entry_exit_cycles calls for one vehicle *)
(* key, starting from no tracked zone, the cycles returned for a zone Z     *)
(* over all calls are the entries into Z observed so far (a point inside Z  *)
(* while the tracked zone is not Z), minus one when the persisted state is  *)
(* inside Z; no count is negative.                                          *)
(***************************************************************************)
\* the entries into z that the returned calls for v observed, up to call k
RECURSIVE EntriesInto(_, _, _)
EntriesInto(v, z, k) ==
    IF k = 0 THEN 0
    ELSE (IF CycleCall(k) /\ calls[k].vehicle = v /\ ~calls[k].raised
          THEN Cardinality({j \in 1..Len(calls[k].points) :
                               TrailOf(k)[j].match = z /\ TrailOf(k)[j].before # z})
          ELSE 0)
         + EntriesInto(v, z, k - 1)

\* the cycles of z that the calls for v returned, up to call k
RECURSIVE CyclesReturned(_, _, _)
CyclesReturned(v, z, k) ==
    IF k = 0 THEN 0
    ELSE (IF CycleCall(k) /\ calls[k].vehicle = v /\ ~calls[k].raised
          THEN calls[k].cycles_count[z] ELSE 0)
         + CyclesReturned(v, z, k - 1)

C25_CyclesAreEntriesMinusOpenVisit ==
    \A v \in Vehicles : \A z \in GeofenceIds(geofences) :
        /\ CyclesReturned(v, z, Len(calls)) =
              EntriesInto(v, z, Len(calls))
              - (IF EntryOf(vehicle_states, v).current_geofence = z THEN 1 ELSE 0)
        /\ \A k \in 1..Len(calls) :
              (CycleCall(k) /\ ~calls[k].raised) => calls[k].cycles_count[z] >= 0

(***************************************************************************)
(* C26: the real distance keeps no state between calls.  When a trace is    *)
(* split into two consecutive analyze_vehicle_data calls, the two calls'    *)
(* real distances for a zone Z add up to the real distance of the whole     *)
(* trace minus the segment that joins the two parts when both of its ends   *)
(* are inside Z, and to the whole otherwise.                                *)
(***************************************************************************)
\* the segment from the last point of p to the first point of q, when both
\* points are inside z
JoiningSegment(p, q, z) ==
    IF ZoneOf(p[Len(p)]) = z /\ ZoneOf(q[1]) = z
    THEN calculate_distance(p[Len(p)].lat, p[Len(p)].lon, q[1].lat, q[1].lon)
    ELSE 0

C26_Split(i) ==
    /\ Direct(i) /\ Direct(i + 1)
    /\ calls[i].vehicle = calls[i + 1].vehicle
    /\ Analysed(i) /\ Analysed(i + 1)

C26_SplitLosesTheJoiningSegment ==
    \A i \in 1..(Len(calls) - 1) :
        C26_Split(i) =>
            \A z \in RealZones :
                calls[i].real_distances[z] + calls[i + 1].real_distances[z] =
                    calculate_real_distance_in_geofence(
                        geofences, calls[i].points \o calls[i + 1].points, z).value
                    - JoiningSegment(calls[i].points, calls[i + 1].points, z)

\* a trace inside nuevo_laredo split between two places: each part has no
\* distance, the whole trace has one unit
C26_SplitInsideNuevoLaredo ==
    \E i \in 1..(Len(calls) - 1) :
        /\ C26_Split(i)
        /\ calls[i].points = <<Pt(1, 6)>> /\ calls[i + 1].points = <<Pt(1, 7)>>
        /\ calls[i].result["nuevo_laredo"].total_km = 0
        /\ calls[i + 1].result["nuevo_laredo"].total_km = 0
        /\ JoiningSegment(calls[i].points, calls[i + 1].points, "nuevo_laredo") = 1

(***************************************************************************)
(* C27: a zone of the loaded registry that has no entry in the rate         *)
(* configuration is reported by analyze_vehicle_data as a real-distance     *)
(* zone whose total_km is 0, whatever its cycle count and however far the   *)
(* vehicle travelled inside it.                                             *)
(***************************************************************************)
UnratedZones == GeofenceIds(geofences) \ DOMAIN GEOCERCA_KM_VALUES

C27_UnratedZoneIsRealKmZero ==
    \A i \in 1..Len(calls) :
        (Direct(i) /\ Analysed(i)) =>
            \A z \in UnratedZones :
                /\ z \in DOMAIN calls[i].result
                /\ calls[i].result[z].type = "real_km"
                /\ calls[i].result[z].total_km = 0

\* one unit travelled inside patio and a completed patio cycle, reported
\* with total_km 0
C27_CycleAndTravelInsidePatio ==
    \E i \in 1..Len(calls) :
        /\ Direct(i) /\ Analysed(i)
        /\ calls[i].points = <<Pt(1, 9), Pt(1, 10), Pt(1, 4)>>
        /\ "patio" \in UnratedZones
        /\ calculate_real_distance_in_geofence(geofences, calls[i].points, "patio").value = 1
        /\ calls[i].result["patio"].cycles = 1
        /\ calls[i].result["patio"].total_km = 0

(***************************************************************************)
(* C28: for every point sequence and every zone Z, the per-zone accumulator *)
(* calculate_real_distance_in_geofence(points, Z) returns what the          *)
(* all-zones accumulator calculate_real_distances(points) reports for Z,    *)
(* a zone missing from the latter's result counting as 0; the two fail on   *)
(* the same sequences.                                                      *)
(***************************************************************************)
Measured(i) == calls[i].op = "real_distances"

C28_PerZoneAgreesWithAllZones ==
    \A i \in 1..Len(calls) :
        Measured(i) =>
            \A z \in DOMAIN calls[i].in_geofence :
                /\ calls[i].in_geofence[z].raised = calls[i].all.raised
                /\ ~calls[i].all.raised =>
                       calls[i].in_geofence[z].value = Get(calls[i].all.value, z, 0)

\* a sequence that leaves nuevo_laredo and comes back: one unit inside on
\* the first visit, nothing for the re-entry, and the other zones missing
\* from the all-zones result
C28_TwoVisitsToNuevoLaredo ==
    \E i \in 1..Len(calls) :
        /\ Measured(i)
        /\ calls[i].points = <<Pt(1, 6), Pt(1, 7), Pt(1, 4), Pt(1, 6)>>
        /\ ~calls[i].all.raised
        /\ calls[i].in_geofence["nuevo_laredo"].value = 1
        /\ Get(calls[i].all.value, "nuevo_laredo", 0) = 1
        /\ "colombia" \in DOMAIN calls[i].in_geofence
        /\ "colombia" \notin DOMAIN calls[i].all.value

(***************************************************************************)
(* C29: zone loading is all-or-nothing.  If any feature of the definition   *)
(* is malformed the registry ends up with zero zones, even when earlier     *)
(* features were parsed; a registry never holds a strict non-empty subset   *)
(* of the zones of its source.                                              *)
(***************************************************************************)
\* the zones the source names
SourceIds(file) ==
    IF file.exists
    THEN {file.features[i].properties.id :
             i \in {j \in 1..Len(file.features) :
                       "id" \in DOMAIN file.features[j].properties}}
    ELSE {}

SomeFeatureMalformed(file) ==
    file.exists /\ \E i \in 1..Len(file.features) : ~WellFormedFeature(file.features[i])

C29_LoadIsAllOrNothing ==
    (calls # << >> /\ Constructed(1)) =>
        /\ SomeFeatureMalformed(calls[1].file) => GeofenceIds(geofences) = {}
        /\ GeofenceIds(geofences) \in {{}, SourceIds(calls[1].file)}
        /\ Len(geofences) \in {0, Len(calls[1].file.features)}

\* a source whose first feature is well formed and names aduana_420, and
\* whose second feature is malformed: the registry holds nothing
C29_ParsedFeatureDropped ==
    /\ calls # << >> /\ Constructed(1)
    /\ SomeFeatureMalformed(calls[1].file)
    /\ WellFormedFeature(calls[1].file.features[1])
    /\ "aduana_420" \in SourceIds(calls[1].file)
    /\ GeofenceIds(geofences) = {}

(***************************************************************************)
(* bigquery_loader.prepare_daily_data: the daily batch that turns the      *)
(* analysis of each US vehicle into warehouse rows.                        *)
(***************************************************************************)
US_GROUP_ID == "b27A3"

\* a device as the telematics API lists it
Device(id, name, groups) ==
    [id |-> id, name |-> name, licensePlate |-> "", groups |-> groups]

\* what the device listing can deliver: a failure, no device, one US vehicle,
\* two US vehicles, or a vehicle of another group followed by a US vehicle
Fleets ==
    {[failed |-> TRUE, devices |-> << >>],
     [failed |-> FALSE, devices |-> << >>],
     [failed |-> FALSE, devices |-> <<Device("b1", "T1", {US_GROUP_ID})>>],
     [failed |-> FALSE, devices |-> <<Device("b1", "T1", {US_GROUP_ID}),
                                      Device("b2", "T2", {US_GROUP_ID})>>],
     [failed |-> FALSE, devices |-> <<Device("b1", "T1", {"b27A4"}),
                                      Device("b2", "T2", {US_GROUP_ID})>>]}

\* the day the batch is run for
Days == {"2024-01-01"}

\* the sample coordinates a day's records hold: inside aduana_420, outside
\* every zone, and two places inside nuevo_laredo
DayPoints == {Pt(1, 1), Pt(1, 4), Pt(1, 6), Pt(1, 7)}

\* what the fetch of one vehicle's day can deliver
DayFetches(n) ==
    IF n < 0 THEN {}
    ELSE {[failed |-> TRUE, records |-> << >>]} \cup
         {[failed |-> FALSE, records |-> t] : t \in Seqs(DayPoints, n)}

\* the parameter lists of the two functions the loader calls
get_us_vehiclesParameters == << >>

analyze_weekly_geofence_dataParameters == <<"vehicle_name", "start_date", "end_date">>

\* a call with positional arguments binds when there is one argument for
\* each parameter; otherwise it raises TypeError before the body runs
Binds(parameters, arguments) == Len(arguments) = Len(parameters)

\* the body of get_us_vehicles: the listed devices that belong to the US
\* group, [] when the listing fails
get_us_vehicles(fleet) ==
    IF fleet.failed THEN << >>
    ELSE LET us == SelectSeq(fleet.devices, LAMBDA vehicle : US_GROUP_ID \in vehicle.groups)
         IN [k \in 1..Len(us) |->
                [id |-> us[k].id, name |-> us[k].name,
                 licensePlate |-> us[k].licensePlate]]

\* data.get(key, 0)
Field(data, key) == IF key \in DOMAIN data THEN data[key] ELSE 0

\* the rows of one vehicle's results, one for each zone with total_km > 0, in
\* the order of the result's keys (the registry's order); round(x, 2) leaves
\* the whole numbers of the sample distances as they are, and the load
\* timestamp is left out
RECURSIVE Rows(_, _, _, _, _)
Rows(gf, results, vehicle, fecha, i) ==
    IF i > Len(gf) THEN << >>
    ELSE LET geofence_id == gf[i].geofence_id IN
         (IF geofence_id \in DOMAIN results /\ results[geofence_id].total_km > 0
          THEN <<[fecha |-> fecha,
                  camion |-> vehicle.name,
                  placa |-> vehicle.licensePlate,
                  geofence_id |-> geofence_id,
                  geofence_name |-> geofence_id,
                  ciclos |-> Field(results[geofence_id], "cycles"),
                  km_calculados |-> results[geofence_id].total_km,
                  tipo_calculo |-> results[geofence_id].type,
                  km_por_ciclo |-> Field(results[geofence_id], "km_per_cycle"),
                  km_reales |-> Field(results[geofence_id], "distance_km")]>>
          ELSE << >>)
         \o Rows(gf, results, vehicle, fecha, i + 1)

\* the try block of one vehicle: the analysis is called with the connection,
\* the name, the id and the day twice; an exception is logged and the vehicle
\* gives no row
VehicleRows(gf, vehicle, fetch, fecha) ==
    IF ~Binds(analyze_weekly_geofence_dataParameters,
              <<"api", vehicle.name, vehicle.id, fecha, fecha>>)
    THEN << >>
    ELSE LET out == analyze_weekly_geofence_data(gf, vehicle.name, fetch) IN
         IF out.propagated THEN << >>
         ELSE Rows(gf, out.result, vehicle, fecha, 1)

\* the loop over the US vehicles, from vehicle i on
RECURSIVE DailyLoop(_, _, _, _, _, _)
DailyLoop(gf, us_vehicles, fetches, fecha, i, all_rows) ==
    IF i > Len(us_vehicles) THEN all_rows
    ELSE DailyLoop(gf, us_vehicles, fetches, fecha, i + 1,
             all_rows \o VehicleRows(gf, us_vehicles[i], fetches[us_vehicles[i].name], fecha))

\* prepare_daily_data(api, fecha): get_us_vehicles is called with the
\* connection, outside any try block
prepare_daily_data(gf, fleet, fetches, fecha) ==
    IF ~Binds(get_us_vehiclesParameters, <<"api">>)
    THEN [raised |-> TRUE, rows |-> << >>]
    ELSE LET us_vehicles == get_us_vehicles(fleet) IN
         IF Len(us_vehicles) = 0
         THEN [raised |-> FALSE, rows |-> << >>]
         ELSE [raised |-> FALSE,
               rows |-> DailyLoop(gf, us_vehicles, fetches, fecha, 1, << >>)]

InitDaily ==
    /\ geofences \in {_load_geofences(file) : file \in GeofenceFiles}
    /\ vehicle_states = EmptyDict
    /\ calls = << >>
    /\ running = NoneRunning

\* rows = prepare_daily_data(geotab_api, fecha), once for a day: the device
\* listing and each vehicle's records of the day are what the API delivers;
\* points keeps the day's records of both vehicles
PrepareDailyData ==
    \E fleet \in Fleets, fecha \in {d \in Days : \A i \in 1..Len(calls) : calls[i].fecha # d} :
    \E first \in DayFetches(MaxWork - Work(calls) - 1) :
    \E second \in DayFetches(MaxWork - Work(calls) - 1 - Len(first.records)) :
    \E fetches \in {[v \in Vehicles |-> IF v = "T1" THEN first ELSE second]} :
    \E out \in {prepare_daily_data(geofences, fleet, fetches, fecha)} :
        /\ calls' = Append(calls,
               [op |-> "prepare_daily_data", fecha |-> fecha, fleet |-> fleet,
                fetches |-> fetches,
                points |-> first.records \o second.records,
                rows |-> out.rows, raised |-> out.raised])
        /\ UNCHANGED <<geofences, vehicle_states, running>>

\* the daily job, run day after day
NextDaily == PrepareDailyData

SpecDaily == InitDaily /\ [][NextDaily]_vars

(***************************************************************************)
(* C30: prepare_daily_data emits a row for a (vehicle, zone) pair if and    *)
(* only if that zone's total_km in the vehicle's analysis result is         *)
(* greater than 0: a zone with completed cycles and total_km 0 gives no     *)
(* row, and a failure for one vehicle does not remove another vehicle's     *)
(* rows.                                                                    *)
(***************************************************************************)
Daily(i) == calls[i].op = "prepare_daily_data"

\* the US vehicles of the day's device listing
UsVehiclesOf(i) ==
    {v \in {calls[i].fleet.devices[k] : k \in 1..Len(calls[i].fleet.devices)} :
        ~calls[i].fleet.failed /\ US_GROUP_ID \in v.groups}

\* the vehicle's analysis result for the day
AnalysisOf(i, v) ==
    analyze_weekly_geofence_data(geofences, v.name, calls[i].fetches[v.name]).result

HasRow(i, v, z) ==
    \E k \in 1..Len(calls[i].rows) :
        calls[i].rows[k].camion = v.name /\ calls[i].rows[k].geofence_id = z

C30_RowIffTotalKmPositive ==
    \A i \in 1..Len(calls) :
        Daily(i) =>
            \A v \in UsVehiclesOf(i), z \in GeofenceIds(geofences) :
                HasRow(i, v, z) <=>
                    (z \in DOMAIN AnalysisOf(i, v) /\ AnalysisOf(i, v)[z].total_km > 0)

====
